---- MODULE Spec2Model ----
(***************************************************************************)
(* A model of read-next (src/src/ReadNext.ts, current version, lines       *)
(* 434-687, and ContentHasher, src/unnamed/part_000).                      *)
(*                                                                         *)
(* State: the in-memory fingerprint table (ContentHasher.records), its     *)
(* persisted copy (contentHashes.json), the summaries directory, the       *)
(* FAISS vector store the engine creates by default and its persisted      *)
(* copy, and the operations (index, getSummaryFor, suggest) in flight,     *)
(* each with its position.  Every await of the code is a suspension point; *)
(* the synchronous statements between two awaits are separate steps (a     *)
(* process crash can fall between any two of them) that no other           *)
(* operation can interleave with.                                          *)
(***************************************************************************)
EXTENDS Integers, Sequences, FiniteSets, TLC

\* ------------------------------------------------------------- bounds
MaxCalls == 2
MaxBatch == 2
MaxLimit == 2
MaxIndexed == 3
NumVariants == 2
MaxScore == 1
MaxParallel == 2

\* ------------------------------------------------------------- values
Ids == {"1", "2"}
NoId == "undefined"
Contents == {"a", "b"}
\* Documents with an id, and one without (its content plays no part in caching).
Docs == [id : Ids, pageContent : Contents] \cup {[id |-> NoId, pageContent |-> "a"]}
Variants == 1..NumVariants
Slots == 1..2

NoSummary == [src |-> "", v |-> 0]
NoDoc == [id |-> NoId, pageContent |-> ""]

Min(a, b) == IF a < b THEN a ELSE b

SeqsUpTo(S, n) == UNION {[1..k -> S] : k \in 0..n}

EmptyMap == [x \in {} |-> <<>>]

MapSet(m, k, val) == [x \in DOMAIN m \cup {k} |-> IF x = k THEN val ELSE m[x]]

\* createHash("sha256").update(pageContent).digest("hex"): a deterministic,
\* collision-free digest that is never decoded.
Sha256(pageContent) == <<"sha256", pageContent>>

VARIABLES
  records,    \* ContentHasher.records: Map id -> digest
  cacheFile,  \* contentHashes.json: [state, text]
  summaries,  \* <cacheDir>/summaries/<id>: id -> summary text
  vs,         \* the vector store's entries, in insertion order
  vsInit,     \* whether the FAISS index has been created
  vsSaved,    \* faiss.index / docstore.json in cacheDir: [exists, entries]
  summariesDir, \* whether <cacheDir>/summaries exists
  ops,        \* the operations in flight
  calls,      \* operations started so far
  summCount,  \* history: summaries the service returned per (id, content), capped at 2
  cur,        \* history: per id, the content last processed and what has completed for it
  readNext,   \* the ReadNext instance: its collaborators, and the config it was created from
  otherDir    \* the files of the cache directory the instance does not use

vars == <<records, cacheFile, summaries, vs, vsInit, vsSaved, summariesDir, ops, calls, summCount, cur,
         readNext, otherDir>>

IdleOp ==
  [kind |-> "idle", pc |-> "idle", docs |-> <<>>, i |-> 0, limit |-> 0,
   hasFresh |-> FALSE, summary |-> NoSummary, summaryDocuments |-> <<>>,
   embeddingsAdded |-> 0, results |-> <<>>, related |-> <<>>,
   hit |-> FALSE, existed |-> FALSE, cached |-> NoSummary, again |-> FALSE,
   invoked |-> 0, fileWrites |-> 0, setCalls |-> 0, saveCalls |-> 0,
   parallel |-> 1, call |-> 0, log |-> <<>>, survivor |-> FALSE,
   deleteCalls |-> 0, addCalls |-> 0, searchCalls |-> 0, vsSaves |-> 0,
   failed |-> FALSE, saveFailed |-> FALSE, returned |-> "none", before |-> <<>>,
   warned |-> FALSE]

\* Positions inside a synchronous run of statements: the operation there
\* holds the (single) JavaScript thread.
SyncPcs == {"check", "writeFile", "hashSet", "hashSave", "idxSet", "idxSave", "next"}

CanRun(s) == \A t \in Slots \ {s} : ops[t].pc \notin SyncPcs

CurDoc(o) == IF o.i \in DOMAIN o.docs THEN o.docs[o.i] ELSE NoDoc

HasId(doc) == doc.id # NoId

\* contentHashes.json does not exist.
NoFile == [state |-> "missing", text |-> <<>>]

\* Nothing has been processed for an id.
NoRun == [content |-> "", derived |-> 0, indexed |-> FALSE, stored |-> FALSE, restarted |-> FALSE]

\* A collaborator left out of the config of ReadNext.create.
Absent == "undefined"

\* path.join(os.tmpdir(), "read-next-cache")
DefaultDir == "tmp"

\* Vector stores a caller can supply, built empty over the embeddings model
\* the caller also passes as config.embeddingsModel, or over another one.
CustomStores == {"FaissStore(custom)", "FaissStore(other)"}

\* vectorStore.embeddings of a supplied store.
StoreEmbeddings(vectorStore) == IF vectorStore = "FaissStore(custom)" THEN "custom" ELSE "other"

Configs ==
  [vectorStore : {Absent} \cup CustomStores, summaryModel : {Absent, "custom"},
   embeddingsModel : {Absent, "custom"}, summarizationPrompt : {Absent, "custom"},
   logger : {Absent, "custom"}, cacheDir : {Absent, "dir"}]

\* A cache directory nothing has been written to.
EmptyDir ==
  [cacheFile |-> NoFile, summaries |-> EmptyMap, vsSaved |-> [exists |-> FALSE, entries |-> <<>>],
   summariesDir |-> FALSE, cur |-> [id \in Ids |-> NoRun]]

\* The instance ReadNext.create({ cacheDir: "dir" }) returns on an empty directory.
FirstInstance ==
  [vectorStore |-> "new FaissStore", summaryModel |-> "ChatOpenAI",
   embeddingsModel |-> "OpenAIEmbeddings", summarizationPrompt |-> "defaultSummarizationPrompt",
   logger |-> "readNextLogger", cacheDir |-> "dir", found |-> FALSE,
   config |-> [vectorStore |-> Absent, summaryModel |-> Absent, embeddingsModel |-> Absent,
               summarizationPrompt |-> Absent, logger |-> Absent, cacheDir |-> "dir"]]

Init ==
  /\ readNext = FirstInstance
  /\ otherDir = EmptyDir
  /\ records = EmptyMap
  /\ cacheFile = NoFile
  /\ summaries = EmptyMap
  /\ vs = <<>>
  /\ vsInit = FALSE
  /\ vsSaved = [exists |-> FALSE, entries |-> <<>>]
  /\ summariesDir = FALSE
  /\ ops = [s \in Slots |-> IdleOp]
  /\ calls = 0
  /\ summCount = [id \in Ids |-> [c \in Contents |-> 0]]
  /\ cur = [id \in Ids |-> NoRun]

\* ------------------------------------------------------ ContentHasher
\* A hasFresh that takes any fingerprint of the id for a fresh one.
hasFreshById(recs, doc) == HasId(doc) /\ doc.id \in DOMAIN recs

hasFresh(recs, doc) ==
  IF HasId(doc)
    THEN doc.id \in DOMAIN recs /\ recs[doc.id] = Sha256(doc.pageContent)
    ELSE FALSE

\* A set that records a digest whether or not the document has an id.
setWithoutIdCheck(recs, doc) == MapSet(recs, doc.id, Sha256(doc.pageContent))

set(recs, doc) ==
  IF HasId(doc) THEN MapSet(recs, doc.id, Sha256(doc.pageContent)) ELSE recs

\* load(): the records after the call (the constructor starts from an empty Map).
\* JSON.stringify(Object.fromEntries(records), null, 2): the text of an object
\* with one member per key of the Map, here the sequence of its members.
\* The members of an object with integer-like keys come in ascending key
\* order, other keys after them.
KeyOrder == <<"1", "2", "undefined">>

Stringify(recs) ==
  LET keys == SelectSeq(KeyOrder, LAMBDA id : id \in DOMAIN recs)
  IN [k \in 1..Len(keys) |-> <<keys[k], recs[keys[k]]>>]

\* new Map(Object.entries(JSON.parse(text))): one entry per key, the last
\* member of a key giving its value.
Parse(text) ==
  LET keys == {text[k][1] : k \in DOMAIN text}
      last(id) == CHOOSE k \in DOMAIN text :
                    text[k][1] = id /\ \A j \in DOMAIN text : text[j][1] = id => j <= k
  IN [id \in keys |-> text[last(id)][2]]

\* A load that empties the table when it cannot read the file.
loadClearing(recs, file) == IF file.state = "json" THEN Parse(file.text) ELSE EmptyMap

\* A load that never reads the file.
loadIgnoresFile(recs, file) == recs

load(recs, file) == IF file.state = "json" THEN Parse(file.text) ELSE recs

loadReturns(file) == file.state # "corrupt"

\* A save that hands the Map itself to JSON.stringify, which writes "{}".
saveMapItself(recs) == [state |-> "json", text |-> <<>>]

save(recs) == [state |-> "json", text |-> Stringify(recs)]

\* The table of a ContentHasher constructed on the cacheDir: an empty Map, then load().
PersistedTable(file) == load(EmptyMap, file)

\* ------------------------------------------------------ vector store (FAISS)
CountId(store, id) == Cardinality({k \in DOMAIN store : store[k].id = id})

RemoveAt(seq, k) == [j \in 1..(Len(seq) - 1) |-> IF j < k THEN seq[j] ELSE seq[j + 1]]

LastPos(store, id) ==
  CHOOSE k \in DOMAIN store :
    /\ store[k].id = id
    /\ \A j \in DOMAIN store : store[j].id = id => j <= k

\* similaritySearchWithScore(query, k): min(k, size) distinct entries, by
\* non-decreasing distance; which entries and which distances is the
\* embedding's business.
IsSorted(scores) == \A j \in 1..(Len(scores) - 1) : scores[j] <= scores[j + 1]

SearchResults(store, k) ==
  LET n == Min(k, Len(store))
      picks == {p \in [1..n -> DOMAIN store] : \A x, y \in 1..n : x # y => p[x] # p[y]}
      scs == {sc \in [1..n -> 0..MaxScore] : IsSorted(sc)}
  IN {[j \in 1..n |->
        [doc |-> [pageContent |-> store[p[j]].pageContent,
                  metadata |-> store[p[j]].metadata],
         score |-> sc[j]]] : p \in picks, sc \in scs}

\* ------------------------------------------------------ suggest's result
\* A suggest that keeps the query document among the results.
RelatedUnfiltered(results, sourceDocument, limit) ==
  LET mapped == [j \in 1..Len(results) |->
                  [sourceDocumentId |-> results[j].doc.metadata.sourceDocumentId,
                   score |-> results[j].score]]
  IN SubSeq(mapped, 1, Min(limit + 1, Len(mapped)))

\* A suggest that returns the best match last.
RelatedReversed(results, sourceDocument, limit) ==
  LET kept == SelectSeq(results,
                LAMBDA r : r.doc.metadata.sourceDocumentId # sourceDocument.id)
      mapped == [j \in 1..Len(kept) |->
                  [sourceDocumentId |-> kept[Len(kept) + 1 - j].doc.metadata.sourceDocumentId,
                   score |-> kept[Len(kept) + 1 - j].score]]
  IN SubSeq(mapped, 1, Min(limit + 1, Len(mapped)))

\* A suggest that cuts the list to limit entries.
RelatedAtMostLimit(results, sourceDocument, limit) ==
  LET kept == SelectSeq(results,
                LAMBDA r : r.doc.metadata.sourceDocumentId # sourceDocument.id)
      mapped == [j \in 1..Len(kept) |->
                  [sourceDocumentId |-> kept[j].doc.metadata.sourceDocumentId,
                   score |-> kept[j].score]]
  IN SubSeq(mapped, 1, Min(limit, Len(mapped)))

\* Lines 671-685: filter, map, slice.
Related(results, sourceDocument, limit) ==
  LET kept == SelectSeq(results,
                LAMBDA r : r.doc.metadata.sourceDocumentId # sourceDocument.id)
      mapped == [j \in 1..Len(kept) |->
                  [sourceDocumentId |-> kept[j].doc.metadata.sourceDocumentId,
                   score |-> kept[j].score]]
  IN SubSeq(mapped, 1, Min(limit + 1, Len(mapped)))

\* ------------------------------------------------------ history variables
Bump(n) == Min(n + 1, 2)

CountSummary(doc) ==
  IF HasId(doc)
    THEN [summCount EXCEPT ![doc.id][doc.pageContent] = Bump(@)]
    ELSE summCount

\* A pipeline run begins on doc: a new content for the id starts a new run.
CurAtCheck(doc) ==
  IF HasId(doc) /\ cur[doc.id].content # doc.pageContent
    THEN [cur EXCEPT ![doc.id] = [NoRun EXCEPT !.content = doc.pageContent]]
    ELSE cur

CurDerived(doc) ==
  IF HasId(doc) /\ cur[doc.id].content = doc.pageContent
    THEN [cur EXCEPT ![doc.id].derived = Bump(@)]
    ELSE cur

CurIndexed(doc) ==
  IF HasId(doc) /\ cur[doc.id].content = doc.pageContent
    THEN [cur EXCEPT ![doc.id].indexed = TRUE]
    ELSE cur

\* getSummaryFor has written the artifact and the fingerprint of doc, or found them.
CurStored(doc) ==
  IF HasId(doc) /\ cur[doc.id].content = doc.pageContent
    THEN [cur EXCEPT ![doc.id].stored = TRUE]
    ELSE cur

\* ------------------------------------------------------ starting an operation
Active == {s \in Slots : ops[s].kind # "idle"}

FreeSlot == CHOOSE s \in Slots : ops[s].kind = "idle" /\ \A t \in Slots : ops[t].kind = "idle" => s <= t

CanStart(lim) ==
  /\ calls < MaxCalls
  /\ Cardinality(Active) < lim
  /\ \A t \in Slots : ops[t].pc \notin SyncPcs

\* An index that dispatches every document of the batch at once, each as
\* an activity of its own.
StartIndexUnbounded(lim, sourceDocuments, parallel) ==
  /\ CanStart(lim)
  /\ ops' = IF Len(sourceDocuments) = 0
       THEN [ops EXCEPT ![FreeSlot] =
              [IdleOp EXCEPT !.kind = "index", !.pc = "next", !.docs = sourceDocuments,
                             !.parallel = parallel, !.call = calls + 1]]
       ELSE [s \in Slots |->
              IF ops[s].kind = "idle" /\ s <= Len(sourceDocuments)
                THEN [IdleOp EXCEPT !.kind = "index", !.pc = "check",
                                    !.docs = sourceDocuments, !.i = s,
                                    !.parallel = parallel, !.call = calls + 1]
                ELSE ops[s]]
  /\ calls' = calls + 1
  /\ UNCHANGED <<readNext, otherDir, records, cacheFile, summaries, vs, vsInit, vsSaved, summariesDir, summCount, cur>>

\* index({ sourceDocuments }): summaryDocuments = [], embeddingsAdded = 0, then the loop.
\* A parallel option of the argument (README lines 118-123, test line 492) is
\* not among the destructured parameters: the call keeps it nowhere, and the
\* model keeps it only to state what was asked for.
StartIndex(lim, sourceDocuments, parallel) ==
  /\ CanStart(lim)
  /\ ops' = [ops EXCEPT ![FreeSlot] =
       [IdleOp EXCEPT !.kind = "index", !.pc = "next", !.docs = sourceDocuments,
                      !.parallel = parallel, !.call = calls + 1]]
  /\ calls' = calls + 1
  /\ UNCHANGED <<readNext, otherDir, records, cacheFile, summaries, vs, vsInit, vsSaved, summariesDir, summCount, cur>>

StartGetSummaryFor(lim, sourceDocument) ==
  /\ CanStart(lim)
  /\ ops' = [ops EXCEPT ![FreeSlot] =
       [IdleOp EXCEPT !.kind = "getSummaryFor", !.pc = "check",
                      !.docs = <<sourceDocument>>, !.i = 1, !.call = calls + 1]]
  /\ calls' = calls + 1
  /\ UNCHANGED <<readNext, otherDir, records, cacheFile, summaries, vs, vsInit, vsSaved, summariesDir, summCount, cur>>

StartSuggest(lim, sourceDocument, limit) ==
  /\ CanStart(lim)
  /\ ops' = [ops EXCEPT ![FreeSlot] =
       [IdleOp EXCEPT !.kind = "suggest", !.pc = "check",
                      !.docs = <<sourceDocument>>, !.i = 1, !.limit = limit,
                      !.call = calls + 1]]
  /\ calls' = calls + 1
  /\ UNCHANGED <<readNext, otherDir, records, cacheFile, summaries, vs, vsInit, vsSaved, summariesDir, summCount, cur>>

\* ------------------------------------------------------ getSummaryFor
\* The state of the operation after lines 599-623, given what the cache holds.
Checked(o, fresh, exists, isHit) ==
  LET doc == CurDoc(o)
  IN [o EXCEPT !.hasFresh = fresh,
               !.summary = IF isHit THEN summaries[doc.id] ELSE NoSummary,
               !.pc = IF isHit THEN "writeFile" ELSE "summarize",
               !.hit = isHit,
               !.existed = exists,
               !.cached = IF exists THEN summaries[doc.id] ELSE NoSummary,
               !.again = HasId(doc) /\ cur[doc.id].content = doc.pageContent
                           /\ cur[doc.id].indexed,
               !.invoked = IF isHit THEN 0 ELSE 1,
               !.fileWrites = 0, !.setCalls = 0, !.saveCalls = 0,
               !.deleteCalls = 0, !.addCalls = 0,
               !.log = IF o.kind = "index" THEN Append(@, o.i) ELSE @,
               !.survivor = HasId(doc) /\ cur[doc.id].content = doc.pageContent
                              /\ cur[doc.id].restarted]

\* A cache read that trusts the file alone.
CheckCacheFileOnly(s) ==
  LET o == ops[s]
      doc == CurDoc(o)
      fresh == hasFresh(records, doc)
      exists == HasId(doc) /\ doc.id \in DOMAIN summaries
      isHit == HasId(doc) /\ exists
  IN /\ o.pc = "check"
     /\ CanRun(s)
     /\ summariesDir' = TRUE
     /\ ops' = [ops EXCEPT ![s] = Checked(o, fresh, exists, isHit)]
     /\ cur' = CurAtCheck(doc)
     /\ UNCHANGED <<readNext, otherDir, records, cacheFile, summaries, vs, vsInit, vsSaved, calls, summCount>>

\* Lines 599-623: hasFresh, the cache read, and on a miss the call of summarize.
CheckCache(s) ==
  LET o == ops[s]
      doc == CurDoc(o)
      fresh == hasFresh(records, doc)
      exists == HasId(doc) /\ doc.id \in DOMAIN summaries
      isHit == HasId(doc) /\ fresh /\ exists
  IN /\ o.pc = "check"
     /\ CanRun(s)
     /\ summariesDir' = TRUE
     /\ ops' = [ops EXCEPT ![s] = Checked(o, fresh, exists, isHit)]
     /\ cur' = CurAtCheck(doc)
     /\ UNCHANGED <<readNext, otherDir, records, cacheFile, summaries, vs, vsInit, vsSaved, calls, summCount>>

\* Line 652: summaryChain.invoke returns a summary of the content.
SummarizeOk(s, v) ==
  LET o == ops[s]
      doc == CurDoc(o)
  IN /\ o.pc = "summarize"
     /\ CanRun(s)
     /\ ops' = [ops EXCEPT ![s] =
          [@ EXCEPT !.summary = [src |-> doc.pageContent, v |-> v], !.pc = "writeFile"]]
     /\ summCount' = CountSummary(doc)
     /\ cur' = CurDerived(doc)
     /\ UNCHANGED <<readNext, otherDir, records, cacheFile, summaries, vs, vsInit, vsSaved, summariesDir, calls>>

\* A getSummaryFor that has recorded the fingerprint by the time the provider fails.
SummarizeFailRecorded(s) ==
  /\ ops[s].pc = "summarize"
  /\ CanRun(s)
  /\ records' = set(records, CurDoc(ops[s]))
  /\ ops' = [ops EXCEPT ![s] = [@ EXCEPT !.pc = "rejected", !.failed = TRUE]]
  /\ UNCHANGED <<readNext, otherDir, cacheFile, summaries, vs, vsInit, vsSaved, summariesDir, calls, summCount, cur>>

\* Line 652: the provider fails; nothing catches it up to the caller.
SummarizeFail(s) ==
  /\ ops[s].pc = "summarize"
  /\ CanRun(s)
  /\ ops' = [ops EXCEPT ![s] = [@ EXCEPT !.pc = "rejected", !.failed = TRUE]]
  /\ UNCHANGED <<readNext, otherDir, records, cacheFile, summaries, vs, vsInit, vsSaved, summariesDir, calls, summCount, cur>>

\* A getSummaryFor that never caches the summary.
WriteFileNever(s) ==
  /\ ops[s].pc = "writeFile"
  /\ CanRun(s)
  /\ ops' = [ops EXCEPT ![s] = [@ EXCEPT !.pc = "hashSet"]]
  /\ UNCHANGED <<readNext, otherDir, records, cacheFile, summaries, vs, vsInit, vsSaved, summariesDir, calls, summCount, cur>>

\* Lines 628-631.
WriteFile(s) ==
  LET o == ops[s]
      doc == CurDoc(o)
  IN /\ o.pc = "writeFile"
     /\ CanRun(s)
     /\ summaries' = IF HasId(doc) THEN MapSet(summaries, doc.id, o.summary) ELSE summaries
     /\ ops' = [ops EXCEPT ![s] =
          [@ EXCEPT !.pc = "hashSet",
                    !.fileWrites = IF HasId(doc) THEN @ + 1 ELSE @]]
     /\ UNCHANGED <<readNext, otherDir, records, cacheFile, vs, vsInit, vsSaved, summariesDir, calls, summCount, cur>>

\* A getSummaryFor that never records the fingerprint.
HashSetNever(s) ==
  /\ ops[s].pc = "hashSet"
  /\ CanRun(s)
  /\ ops' = [ops EXCEPT ![s] = [@ EXCEPT !.pc = "resume"]]
  /\ UNCHANGED <<readNext, otherDir, records, cacheFile, summaries, vs, vsInit, vsSaved, summariesDir, calls, summCount, cur>>

\* A getSummaryFor that records the fingerprint whether it was fresh or not.
HashSetAlways(s) ==
  LET o == ops[s]
      doc == CurDoc(o)
  IN /\ o.pc = "hashSet"
     /\ CanRun(s)
     /\ records' = set(records, doc)
     /\ ops' = [ops EXCEPT ![s] = [@ EXCEPT !.pc = "hashSave", !.setCalls = @ + 1]]
     /\ UNCHANGED <<readNext, otherDir, cacheFile, summaries, vs, vsInit, vsSaved, summariesDir, calls, summCount, cur>>

\* Lines 634-635.
HashSet(s) ==
  LET o == ops[s]
      doc == CurDoc(o)
  IN /\ o.pc = "hashSet"
     /\ CanRun(s)
     /\ records' = IF ~o.hasFresh THEN set(records, doc) ELSE records
     /\ ops' = [ops EXCEPT ![s] =
          [@ EXCEPT !.pc = IF ~o.hasFresh THEN "hashSave" ELSE "resume",
                    !.setCalls = IF ~o.hasFresh THEN @ + 1 ELSE @]]
     /\ cur' = IF o.hasFresh THEN CurStored(doc) ELSE cur
     /\ UNCHANGED <<readNext, otherDir, cacheFile, summaries, vs, vsInit, vsSaved, summariesDir, calls, summCount>>

\* A getSummaryFor that leaves the new fingerprint in memory.
HashSaveSkipped(s) ==
  /\ ops[s].pc = "hashSave"
  /\ CanRun(s)
  /\ ops' = [ops EXCEPT ![s] = [@ EXCEPT !.pc = "resume"]]
  /\ cur' = CurStored(CurDoc(ops[s]))
  /\ UNCHANGED <<readNext, otherDir, records, cacheFile, summaries, vs, vsInit, vsSaved, summariesDir, calls, summCount>>

\* A save that writes the key of its own document only.
HashSaveOwnKey(s) ==
  LET doc == CurDoc(ops[s])
  IN /\ ops[s].pc = "hashSave"
     /\ CanRun(s)
     /\ cacheFile' = save([x \in DOMAIN records \cap {doc.id} |-> records[x]])
     /\ ops' = [ops EXCEPT ![s] = [@ EXCEPT !.pc = "resume", !.saveCalls = @ + 1]]
     /\ cur' = CurStored(doc)
     /\ UNCHANGED <<readNext, otherDir, records, summaries, vs, vsInit, vsSaved, summariesDir, calls, summCount>>

\* Line 636.
HashSave(s) ==
  /\ ops[s].pc = "hashSave"
  /\ CanRun(s)
  /\ cacheFile' = save(records)
  /\ ops' = [ops EXCEPT ![s] = [@ EXCEPT !.pc = "resume", !.saveCalls = @ + 1]]
  /\ cur' = CurStored(CurDoc(ops[s]))
  /\ UNCHANGED <<readNext, otherDir, records, summaries, vs, vsInit, vsSaved, summariesDir, calls, summCount>>

\* A getSummaryFor that adds the summary to the vector store.
ResumeGetSummaryForAdding(s) ==
  LET o == ops[s]
      doc == CurDoc(o)
  IN /\ o.kind = "getSummaryFor"
     /\ o.pc = "resume"
     /\ CanRun(s)
     /\ vs' = Append(vs, [id |-> doc.id, pageContent |-> o.summary,
                          metadata |-> [sourceDocumentId |-> doc.id]])
     /\ vsInit' = TRUE
     /\ ops' = [ops EXCEPT ![s] = [@ EXCEPT !.pc = "done"]]
     /\ UNCHANGED <<readNext, otherDir, records, cacheFile, summaries, vsSaved, summariesDir, calls, summCount, cur>>

\* getSummaryFor called directly: its promise resolves with the summary.
ResumeGetSummaryFor(s) ==
  /\ ops[s].kind = "getSummaryFor"
  /\ ops[s].pc = "resume"
  /\ CanRun(s)
  /\ ops' = [ops EXCEPT ![s] = [@ EXCEPT !.pc = "done"]]
  /\ UNCHANGED <<readNext, otherDir, records, cacheFile, summaries, vs, vsInit, vsSaved, summariesDir, calls, summCount, cur>>

\* ------------------------------------------------------ index
\* An index that adds the summary document without deleting the id first.
ResumeIndexNoDelete(s) ==
  LET o == ops[s]
      doc == CurDoc(o)
      summaryDocument == [pageContent |-> o.summary,
                          metadata |-> [sourceDocumentId |-> doc.id]]
  IN /\ o.kind = "index"
     /\ o.pc = "resume"
     /\ CanRun(s)
     /\ ops' = [ops EXCEPT ![s] =
          [@ EXCEPT !.summaryDocuments = Append(@, summaryDocument), !.pc = "add"]]
     /\ UNCHANGED <<readNext, otherDir, records, cacheFile, summaries, vs, vsInit, vsSaved, summariesDir, calls, summCount, cur>>

\* An index that leaves the vector store alone when the summary came from the cache.
ResumeIndexSkipOnHit(s) ==
  LET o == ops[s]
      doc == CurDoc(o)
      summaryDocument == [pageContent |-> o.summary,
                          metadata |-> [sourceDocumentId |-> doc.id]]
  IN /\ o.kind = "index"
     /\ o.pc = "resume"
     /\ CanRun(s)
     /\ ops' = [ops EXCEPT ![s] =
          IF o.hit
            THEN [@ EXCEPT !.summaryDocuments = Append(@, summaryDocument), !.pc = "idxSet",
                           !.embeddingsAdded = @ + 1]
            ELSE [@ EXCEPT !.summaryDocuments = Append(@, summaryDocument), !.pc = "delete",
                           !.deleteCalls = @ + 1]]
     /\ UNCHANGED <<readNext, otherDir, records, cacheFile, summaries, vs, vsInit, vsSaved, summariesDir, calls, summCount, cur>>

\* Lines 546-557: the summary document is built and pushed, delete is called.
ResumeIndex(s) ==
  LET o == ops[s]
      doc == CurDoc(o)
      summaryDocument == [pageContent |-> o.summary,
                          metadata |-> [sourceDocumentId |-> doc.id]]
  IN /\ o.kind = "index"
     /\ o.pc = "resume"
     /\ CanRun(s)
     /\ ops' = [ops EXCEPT ![s] =
          [@ EXCEPT !.summaryDocuments = Append(@, summaryDocument), !.pc = "delete",
                    !.deleteCalls = @ + 1]]
     /\ UNCHANGED <<readNext, otherDir, records, cacheFile, summaries, vs, vsInit, vsSaved, summariesDir, calls, summCount, cur>>

\* Line 557: vectorStore.delete removes the entry of the id, line 561 calls addDocuments.
DeleteOk(s) ==
  LET o == ops[s]
      doc == CurDoc(o)
  IN /\ o.pc = "delete"
     /\ CanRun(s)
     /\ CountId(vs, doc.id) > 0
     /\ vs' = RemoveAt(vs, LastPos(vs, doc.id))
     /\ ops' = [ops EXCEPT ![s] = [@ EXCEPT !.pc = "add", !.addCalls = @ + 1]]
     /\ UNCHANGED <<readNext, otherDir, records, cacheFile, summaries, vsInit, vsSaved, summariesDir, calls, summCount, cur>>

\* An index that lets the error of delete reject the call.
DeleteThrowFatal(s) ==
  LET o == ops[s]
      doc == CurDoc(o)
  IN /\ o.pc = "delete"
     /\ CanRun(s)
     /\ CountId(vs, doc.id) = 0
     /\ ops' = [ops EXCEPT ![s] = [@ EXCEPT !.pc = "rejected", !.failed = TRUE]]
     /\ UNCHANGED <<readNext, otherDir, records, cacheFile, summaries, vs, vsInit, vsSaved, summariesDir, calls, summCount, cur>>

\* Lines 558-560: the store throws for an id it does not hold; the error is dropped.
DeleteThrow(s) ==
  LET o == ops[s]
      doc == CurDoc(o)
  IN /\ o.pc = "delete"
     /\ CanRun(s)
     /\ CountId(vs, doc.id) = 0
     /\ ops' = [ops EXCEPT ![s] = [@ EXCEPT !.pc = "add", !.addCalls = @ + 1]]
     /\ UNCHANGED <<readNext, otherDir, records, cacheFile, summaries, vs, vsInit, vsSaved, summariesDir, calls, summCount, cur>>

\* An index that adds the summary document without the ids option: the store
\* keys it by an id of its own.
AddOkWithoutIds(s) ==
  LET o == ops[s]
      summaryDocument == o.summaryDocuments[Len(o.summaryDocuments)]
  IN /\ o.pc = "add"
     /\ CanRun(s)
     /\ vs' = Append(vs, [id |-> "generated",
                          pageContent |-> summaryDocument.pageContent,
                          metadata |-> summaryDocument.metadata])
     /\ vsInit' = TRUE
     /\ ops' = [ops EXCEPT ![s] =
          [@ EXCEPT !.embeddingsAdded = @ + 1, !.pc = "idxSet"]]
     /\ UNCHANGED <<readNext, otherDir, records, cacheFile, summaries, vsSaved, summariesDir, calls, summCount, cur>>

\* Lines 561-562: addDocuments appends the summary document under the id.
AddOk(s) ==
  LET o == ops[s]
      doc == CurDoc(o)
      summaryDocument == o.summaryDocuments[Len(o.summaryDocuments)]
  IN /\ o.pc = "add"
     /\ CanRun(s)
     /\ vs' = Append(vs, [id |-> doc.id,
                          pageContent |-> summaryDocument.pageContent,
                          metadata |-> summaryDocument.metadata])
     /\ vsInit' = TRUE
     /\ ops' = [ops EXCEPT ![s] =
          [@ EXCEPT !.embeddingsAdded = @ + 1, !.pc = "idxSet"]]
     /\ UNCHANGED <<readNext, otherDir, records, cacheFile, summaries, vsSaved, summariesDir, calls, summCount, cur>>

\* An index that drops the error of addDocuments as it drops that of delete.
AddFailSwallowed(s) ==
  /\ ops[s].pc = "add"
  /\ CanRun(s)
  /\ ops' = [ops EXCEPT ![s] = [@ EXCEPT !.pc = "idxSet", !.failed = TRUE]]
  /\ UNCHANGED <<readNext, otherDir, records, cacheFile, summaries, vs, vsInit, vsSaved, summariesDir, calls, summCount, cur>>

\* Line 561: the embedding provider fails; index rejects.
AddFail(s) ==
  /\ ops[s].pc = "add"
  /\ CanRun(s)
  /\ ops' = [ops EXCEPT ![s] = [@ EXCEPT !.pc = "rejected", !.failed = TRUE]]
  /\ UNCHANGED <<readNext, otherDir, records, cacheFile, summaries, vs, vsInit, vsSaved, summariesDir, calls, summCount, cur>>

\* Line 567.
IdxSet(s) ==
  /\ ops[s].pc = "idxSet"
  /\ CanRun(s)
  /\ records' = set(records, CurDoc(ops[s]))
  /\ ops' = [ops EXCEPT ![s] = [@ EXCEPT !.pc = "idxSave"]]
  /\ UNCHANGED <<readNext, otherDir, cacheFile, summaries, vs, vsInit, vsSaved, summariesDir, calls, summCount, cur>>

\* Line 568.
IdxSave(s) ==
  /\ ops[s].pc = "idxSave"
  /\ CanRun(s)
  /\ cacheFile' = save(records)
  /\ ops' = [ops EXCEPT ![s] = [@ EXCEPT !.pc = "next"]]
  /\ cur' = CurIndexed(CurDoc(ops[s]))
  /\ UNCHANGED <<readNext, otherDir, records, summaries, vs, vsInit, vsSaved, summariesDir, calls, summCount>>

\* An index that saves the vector store whether or not it added a document.
NextDocAlwaysSave(s) ==
  LET o == ops[s]
  IN /\ o.pc = "next"
     /\ CanRun(s)
     /\ ops' = [ops EXCEPT ![s] =
          IF o.i < Len(o.docs)
            THEN [@ EXCEPT !.i = @ + 1, !.pc = "check"]
            ELSE [@ EXCEPT !.pc = "vsSave", !.vsSaves = @ + 1]]
     /\ UNCHANGED <<readNext, otherDir, records, cacheFile, summaries, vs, vsInit, vsSaved, summariesDir, calls, summCount, cur>>

\* A loop that passes over a document.
NextDocSkipping(s) ==
  LET o == ops[s]
  IN /\ o.pc = "next"
     /\ CanRun(s)
     /\ ops' = [ops EXCEPT ![s] =
          IF o.i < Len(o.docs)
            THEN [@ EXCEPT !.i = Min(@ + 2, Len(o.docs)), !.pc = "check"]
            ELSE [@ EXCEPT !.pc = IF o.embeddingsAdded > 0 THEN "vsSave" ELSE "done",
                           !.vsSaves = IF o.embeddingsAdded > 0 THEN @ + 1 ELSE @]]
     /\ UNCHANGED <<readNext, otherDir, records, cacheFile, summaries, vs, vsInit, vsSaved, summariesDir, calls, summCount, cur>>

\* An index whose loop never moves past its last document.
NextDocAgain(s) ==
  LET o == ops[s]
  IN /\ o.pc = "next"
     /\ CanRun(s)
     /\ ops' = [ops EXCEPT ![s] =
          IF o.i < Len(o.docs)
            THEN [@ EXCEPT !.i = @ + 1, !.pc = "check"]
            ELSE IF o.i >= 1
              THEN [@ EXCEPT !.pc = "check", !.log = <<>>, !.summaryDocuments = <<>>,
                             !.embeddingsAdded = 0]
              ELSE [@ EXCEPT !.pc = "done"]]
     /\ UNCHANGED <<readNext, otherDir, records, cacheFile, summaries, vs, vsInit, vsSaved, summariesDir, calls, summCount, cur>>

\* Lines 542 and 571-585: the loop header, and what follows the loop.
NextDoc(s) ==
  LET o == ops[s]
  IN /\ o.pc = "next"
     /\ CanRun(s)
     /\ ops' = [ops EXCEPT ![s] =
          IF o.i < Len(o.docs)
            THEN [@ EXCEPT !.i = @ + 1, !.pc = "check"]
            ELSE [@ EXCEPT !.pc = IF o.embeddingsAdded > 0 THEN "vsSave" ELSE "done",
                           !.vsSaves = IF o.embeddingsAdded > 0 THEN @ + 1 ELSE @]]
     /\ UNCHANGED <<readNext, otherDir, records, cacheFile, summaries, vs, vsInit, vsSaved, summariesDir, calls, summCount, cur>>

\* Line 577: vectorStore.save(cacheDir).
VsSaveOk(s) ==
  /\ ops[s].pc = "vsSave"
  /\ CanRun(s)
  /\ vsSaved' = [exists |-> TRUE, entries |-> vs]
  /\ ops' = [ops EXCEPT ![s] = [@ EXCEPT !.pc = "done"]]
  /\ UNCHANGED <<readNext, otherDir, records, cacheFile, summaries, vs, vsInit, summariesDir, calls, summCount, cur>>

\* An index that lets the error of the vector store's save reach its caller.
VsSaveFailFatal(s) ==
  /\ ops[s].pc = "vsSave"
  /\ CanRun(s)
  /\ ops' = [ops EXCEPT ![s] = [@ EXCEPT !.pc = "rejected", !.saveFailed = TRUE]]
  /\ UNCHANGED <<readNext, otherDir, records, cacheFile, summaries, vs, vsInit, vsSaved, summariesDir, calls, summCount, cur>>

\* Lines 579-582: the save fails; logged, index returns all the same.
VsSaveFail(s) ==
  /\ ops[s].pc = "vsSave"
  /\ CanRun(s)
  /\ ops' = [ops EXCEPT ![s] = [@ EXCEPT !.pc = "done", !.saveFailed = TRUE]]
  /\ UNCHANGED <<readNext, otherDir, records, cacheFile, summaries, vs, vsInit, vsSaved, summariesDir, calls, summCount, cur>>

\* ------------------------------------------------------ suggest
\* Line 669: similaritySearchWithScore(summary, limit + 1) is called.
ResumeSuggest(s) ==
  /\ ops[s].kind = "suggest"
  /\ ops[s].pc = "resume"
  /\ CanRun(s)
  /\ ops' = [ops EXCEPT ![s] = [@ EXCEPT !.pc = "search", !.searchCalls = @ + 1]]
  /\ UNCHANGED <<readNext, otherDir, records, cacheFile, summaries, vs, vsInit, vsSaved, summariesDir, calls, summCount, cur>>

\* A suggest that answers with no results when the store was never initialised.
SearchOkUninitialised(s, results) ==
  LET o == ops[s]
  IN /\ o.pc = "search"
     /\ CanRun(s)
     /\ results \in SearchResults(vs, o.limit + 1)
     /\ ops' = [ops EXCEPT ![s] =
          [@ EXCEPT !.results = results,
                    !.related = Related(results, CurDoc(o), o.limit),
                    !.pc = "done"]]
     /\ UNCHANGED <<readNext, otherDir, records, cacheFile, summaries, vs, vsInit, vsSaved, summariesDir, calls, summCount, cur>>

\* Lines 669-686.
SearchOk(s, results) ==
  LET o == ops[s]
  IN /\ o.pc = "search"
     /\ CanRun(s)
     /\ vsInit
     /\ results \in SearchResults(vs, o.limit + 1)
     /\ ops' = [ops EXCEPT ![s] =
          [@ EXCEPT !.results = results,
                    !.related = Related(results, CurDoc(o), o.limit),
                    !.pc = "done"]]
     /\ UNCHANGED <<readNext, otherDir, records, cacheFile, summaries, vs, vsInit, vsSaved, summariesDir, calls, summCount, cur>>

\* Line 669: the store is not initialised, or the embedding provider fails.
SearchFail(s) ==
  /\ ops[s].pc = "search"
  /\ CanRun(s)
  /\ ops' = [ops EXCEPT ![s] = [@ EXCEPT !.pc = "rejected", !.failed = TRUE]]
  /\ UNCHANGED <<readNext, otherDir, records, cacheFile, summaries, vs, vsInit, vsSaved, summariesDir, calls, summCount, cur>>

\* ------------------------------------------------------ the caller
\* The caller takes the result (or the error) of a settled operation.
Return(s) ==
  /\ ops[s].pc \in {"done", "rejected"}
  /\ CanRun(s)
  /\ ops' = [ops EXCEPT ![s] = IdleOp]
  /\ UNCHANGED <<readNext, otherDir, records, cacheFile, summaries, vs, vsInit, vsSaved, summariesDir, calls, summCount, cur>>

\* The process dies at any point and a new one is started on the same
\* cacheDir: ReadNext.create (lines 469-479) loads the saved FAISS index if
\* there is one, the ContentHasher constructor loads contentHashes.json.
Crash ==
  /\ \E s \in Slots : ops[s].kind # "idle"
  /\ ops' = [s \in Slots |-> IdleOp]
  /\ records' = load(EmptyMap, cacheFile)
  /\ vs' = IF vsSaved.exists THEN vsSaved.entries ELSE <<>>
  /\ vsInit' = vsSaved.exists
  /\ UNCHANGED <<readNext, otherDir, cacheFile, summaries, vsSaved, summariesDir, calls, summCount, cur>>

\* The process ends with no operation in flight and a new one is started on
\* the same cacheDir (ReadNext.create, lines 462-494; ContentHasher
\* constructor, part_000 lines 39-46).
Restart ==
  /\ \A s \in Slots : ops[s].kind = "idle"
  /\ records' = load(EmptyMap, cacheFile)
  /\ vs' = IF vsSaved.exists THEN vsSaved.entries ELSE <<>>
  /\ vsInit' = vsSaved.exists
  /\ cur' = [id \in Ids |-> [cur[id] EXCEPT !.restarted = cur[id].stored]]
  /\ UNCHANGED <<readNext, otherDir, cacheFile, summaries, vsSaved, summariesDir, ops, calls, summCount>>

\* value || fallback, and a destructured parameter's default.
Default(value, fallback) == IF value = Absent THEN fallback ELSE value

\* The files of the directory the instance uses.
ThisDir ==
  [cacheFile |-> cacheFile, summaries |-> summaries, vsSaved |-> vsSaved,
   summariesDir |-> summariesDir, cur |-> cur]

\* The process ends with no operation in flight and a new one calls
\* ReadNext.create(config) (lines 462-494), which runs the constructor
\* (lines 505-527) and with it the ContentHasher constructor on this.cacheDir.
\* found records whether this.cacheDir held a saved FAISS index at that time.
Create(config) ==
  LET dir == Default(config.cacheDir, DefaultDir)
      files == IF dir = readNext.cacheDir THEN ThisDir ELSE otherDir
      found == files.vsSaved.exists
      loads == config.vectorStore = Absent /\ config.cacheDir # Absent /\ found
      embeddingsModel == Default(config.embeddingsModel, "OpenAIEmbeddings")
      vectorStore == IF config.vectorStore # Absent THEN config.vectorStore
                     ELSE IF loads THEN "FaissStore.load" ELSE "new FaissStore"
  IN /\ \A s \in Slots : ops[s].kind = "idle"
     /\ otherDir' = IF dir = readNext.cacheDir THEN otherDir ELSE ThisDir
     /\ cacheFile' = files.cacheFile
     /\ summaries' = files.summaries
     /\ vsSaved' = files.vsSaved
     /\ summariesDir' = files.summariesDir
     /\ cur' = [id \in Ids |-> [files.cur[id] EXCEPT !.restarted = files.cur[id].stored]]
     /\ records' = load(EmptyMap, files.cacheFile)
     /\ vs' = IF loads THEN files.vsSaved.entries ELSE <<>>
     /\ vsInit' = loads
     /\ readNext' =
          [vectorStore |-> vectorStore,
           summaryModel |-> Default(config.summaryModel, "ChatOpenAI"),
           embeddingsModel |-> IF config.vectorStore # Absent
                                 THEN StoreEmbeddings(config.vectorStore)
                                 ELSE embeddingsModel,
           summarizationPrompt |-> Default(config.summarizationPrompt, "defaultSummarizationPrompt"),
           logger |-> Default(config.logger, "readNextLogger"),
           cacheDir |-> dir, found |-> found, config |-> config]
     /\ UNCHANGED <<ops, calls, summCount>>

\* ------------------------------------------------------ ContentHasher, called directly
\* The methods of a ContentHasher called on their own (as its tests do,
\* part_001): each is synchronous; the operation record keeps the argument,
\* the table before the call and the value returned.
HasherCall(kind, docs, returned, warned) ==
  [IdleOp EXCEPT !.kind = kind, !.pc = "done", !.docs = docs, !.i = Len(docs),
                 !.returned = returned, !.before = records, !.warned = warned]

\* part_000 lines 61 and 79: logger.warn("No id supplied, so caching will not work").
warns(document) == ~HasId(document)

HasherIdle == \A s \in Slots : ops[s].kind = "idle"

\* new ContentHasher({ cacheDir }): part_000 lines 39-46.
HasherNew ==
  /\ HasherIdle
  /\ records' = load(EmptyMap, cacheFile)
  /\ ops' = [ops EXCEPT ![1] = HasherCall("new", <<>>, "none", FALSE)]
  /\ UNCHANGED <<readNext, otherDir, cacheFile, summaries, vs, vsInit, vsSaved, summariesDir, calls, summCount, cur>>

HasherHasFresh(document) ==
  /\ HasherIdle
  /\ ops' = [ops EXCEPT ![1] = HasherCall("hasFresh", <<document>>, hasFresh(records, document), warns(document))]
  /\ UNCHANGED <<readNext, otherDir, records, cacheFile, summaries, vs, vsInit, vsSaved, summariesDir, calls, summCount, cur>>

HasherSet(document) ==
  /\ HasherIdle
  /\ records' = set(records, document)
  /\ ops' = [ops EXCEPT ![1] = HasherCall("set", <<document>>, "none", warns(document))]
  /\ UNCHANGED <<readNext, otherDir, cacheFile, summaries, vs, vsInit, vsSaved, summariesDir, calls, summCount, cur>>

HasherLoad ==
  /\ HasherIdle
  /\ records' = load(records, cacheFile)
  /\ ops' = [ops EXCEPT ![1] = HasherCall("load", <<>>, loadReturns(cacheFile), FALSE)]
  /\ UNCHANGED <<readNext, otherDir, cacheFile, summaries, vs, vsInit, vsSaved, summariesDir, calls, summCount, cur>>

HasherSave ==
  /\ HasherIdle
  /\ cacheFile' = save(records)
  /\ ops' = [ops EXCEPT ![1] = HasherCall("save", <<>>, "none", FALSE)]
  /\ UNCHANGED <<readNext, otherDir, records, summaries, vs, vsInit, vsSaved, summariesDir, calls, summCount, cur>>

\* Something else writes text that is not JSON to contentHashes.json
\* (part_001 line 106), or removes the file.
FileMalformed ==
  /\ HasherIdle
  /\ cacheFile.state # "corrupt"
  /\ cacheFile' = [state |-> "corrupt", text |-> <<>>]
  /\ UNCHANGED <<readNext, otherDir, records, summaries, vs, vsInit, vsSaved, summariesDir, ops, calls, summCount, cur>>

FileRemoved ==
  /\ HasherIdle
  /\ cacheFile.state # "missing"
  /\ cacheFile' = NoFile
  /\ UNCHANGED <<readNext, otherDir, records, summaries, vs, vsInit, vsSaved, summariesDir, ops, calls, summCount, cur>>

\* The summary file of an id disappears from <cacheDir>/summaries while its
\* fingerprint stays in contentHashes.json: the case line 610 tests for with
\* fs.existsSync after hasFresh has answered true.
SummaryRemoved(id) ==
  /\ id \in DOMAIN summaries
  /\ summaries' = [x \in DOMAIN summaries \ {id} |-> summaries[x]]
  /\ UNCHANGED <<readNext, otherDir, records, cacheFile, vs, vsInit, vsSaved, summariesDir, ops, calls, summCount, cur>>

\* ------------------------------------------------------ specifications
Step(s) ==
  \/ CheckCache(s)
  \/ \E v \in Variants : SummarizeOk(s, v)
  \/ SummarizeFail(s)
  \/ WriteFile(s)
  \/ HashSet(s)
  \/ HashSave(s)
  \/ ResumeGetSummaryFor(s)
  \/ ResumeIndex(s)
  \/ DeleteOk(s)
  \/ DeleteThrow(s)
  \/ AddOk(s)
  \/ AddFail(s)
  \/ IdxSet(s)
  \/ IdxSave(s)
  \/ NextDoc(s)
  \/ VsSaveOk(s)
  \/ VsSaveFail(s)
  \/ ResumeSuggest(s)
  \/ \E results \in SearchResults(vs, ops[s].limit + 1) : SearchOk(s, results)
  \/ SearchFail(s)
  \/ Return(s)

Start(lim, batches, documents, limits, parallels) ==
  \/ \E sourceDocuments \in batches, parallel \in parallels :
       StartIndex(lim, sourceDocuments, parallel)
  \/ \E sourceDocument \in documents : StartGetSummaryFor(lim, sourceDocument)
  \/ \E sourceDocument \in documents, limit \in limits : StartSuggest(lim, sourceDocument, limit)

\* One operation at a time: the caller awaits each call before the next.
Next == Start(1, SeqsUpTo(Docs, MaxBatch), Docs, 0..MaxLimit, {1}) \/ \E s \in Slots : Step(s)

Spec == Init /\ [][Next]_vars

\* The same, with the process crashing and restarting at any point.
NextCrash == Next \/ Crash

SpecCrash == Init /\ [][NextCrash]_vars

\* One operation at a time over documents of one content version, with
\* batches long enough to fill the store with every id.
DocsA == {d \in Docs : d.pageContent = "a"}

NextSuggest ==
  Start(1, SeqsUpTo(DocsA, MaxIndexed), DocsA, 0..MaxLimit, {1}) \/ \E s \in Slots : Step(s)

SpecSuggest == Init /\ [][NextSuggest]_vars

\* One operation at a time, index being asked for every degree of parallelism.
NextParallel ==
  Start(1, SeqsUpTo(DocsA, MaxBatch), DocsA, {0}, 1..MaxParallel) \/ \E s \in Slots : Step(s)

SpecParallel == Init /\ [][NextParallel]_vars

\* One operation at a time on one id (and on no id), the process being
\* restarted between operations.
DocsOne == {d \in Docs : d.id # "2"}

NextRestart ==
  \/ Start(1, SeqsUpTo(DocsOne, MaxBatch), DocsOne, {0}, {1})
  \/ \E s \in Slots : Step(s)
  \/ Restart

SpecRestart == Init /\ [][NextRestart]_vars

\* Two operations at a time: a caller starts a second operation without
\* awaiting the first.
NextConcurrent ==
  Start(2, SeqsUpTo(DocsOne, 1), DocsOne, {0}, {1}) \/ \E s \in Slots : Step(s)

SpecConcurrent == Init /\ [][NextConcurrent]_vars

\* A ContentHasher on its own: its methods called one after the other in
\* any order, on a cache file that can go missing or malformed.
NextHasher ==
  \/ HasherNew
  \/ \E document \in Docs : HasherHasFresh(document)
  \/ \E document \in Docs : HasherSet(document)
  \/ HasherLoad
  \/ HasherSave
  \/ FileMalformed
  \/ FileRemoved
  \/ \E s \in Slots : Return(s)

SpecHasher == Init /\ [][NextHasher]_vars

\* One operation at a time on one document, the process being restarted
\* between operations with any config.
DocsCreate == {d \in Docs : d.id = "1" /\ d.pageContent = "a"}

NextCreate ==
  \/ Start(1, SeqsUpTo(DocsCreate, 1), DocsCreate, {0}, {1})
  \/ \E s \in Slots : Step(s)
  \/ \E config \in Configs : Create(config)

SpecCreate == Init /\ [][NextCreate]_vars

\* One operation at a time on one id (and on no id), summary files being
\* removed from the cache directory at any point.
NextMissing ==
  \/ Start(1, SeqsUpTo(DocsOne, MaxBatch), DocsOne, {0}, {1})
  \/ \E s \in Slots : Step(s)
  \/ \E id \in Ids : SummaryRemoved(id)

SpecMissing == Init /\ [][NextMissing]_vars

\* Two operations at a time over two ids of one content version.
NextTwoIds ==
  Start(2, SeqsUpTo(DocsA, 1), DocsA, {0}, {1}) \/ \E s \in Slots : Step(s)

SpecTwoIds == Init /\ [][NextTwoIds]_vars

\* A caller that awaits an operation and, still holding what it settled
\* with, calls index on one document.
IndexAfter(sourceDocuments) ==
  /\ \E s \in Slots : ops[s].pc \in {"done", "rejected"}
  /\ \A s \in Slots : ops[s].pc \in {"idle", "done", "rejected"}
  /\ StartIndex(2, sourceDocuments, 1)

\* One operation at a time on one id (and on no id), index also being called
\* right after another operation has settled.
NextAfter ==
  \/ Start(1, SeqsUpTo(DocsOne, 1), DocsOne, {0}, {1})
  \/ \E s \in Slots : Step(s)
  \/ \E sourceDocuments \in SeqsUpTo(DocsOne, 1) : IndexAfter(sourceDocuments)

SpecAfter == Init /\ [][NextAfter]_vars

\* One operation at a time on one id (and on no id), where every call of a
\* provider or of the vector store eventually settles and the event loop
\* runs every continuation that is ready.
NextLive ==
  Start(1, SeqsUpTo(DocsOne, MaxBatch), DocsOne, {0}, {1}) \/ \E s \in Slots : Step(s)

SpecLive == Init /\ [][NextLive]_vars /\ \A s \in Slots : WF_vars(Step(s))

\* ------------------------------------------------------ properties
\* The positions of a getSummaryFor run after the cache was consulted.
GsfPcs == {"summarize", "writeFile", "hashSet", "hashSave", "resume"}

SuggestDone(o) == o.kind = "suggest" /\ o.pc = "done"

\* C1: when index processes a document that the last completed index pass
\* for its id already processed with the same content, the pass does not
\* invoke the summarization service, and when it completes the fingerprint
\* table holds the entry of the id and the vector index exactly one entry
\* for the id.
C1_IndexTwiceIdempotent ==
  \A s \in Slots :
    LET o == ops[s]
        doc == CurDoc(o)
    IN (o.kind = "index" /\ o.pc = "next" /\ o.i >= 1 /\ o.again) =>
         /\ o.invoked = 0
         /\ doc.id \in DOMAIN records
         /\ records[doc.id] = Sha256(doc.pageContent)
         /\ CountId(vs, doc.id) = 1

\* An index pass over an already indexed, unchanged document has completed.
C1_Witness ==
  \E s \in Slots :
    ops[s].kind = "index" /\ ops[s].pc = "next" /\ ops[s].i >= 1 /\ ops[s].again

\* C2: a getSummaryFor run (directly or inside index/suggest) on a document
\* with an id whose fingerprint is absent or differs from the digest of its
\* content never takes the cached file: it invokes the summarization
\* service, and when it returns the artifact file holds the new summary and
\* the table, in memory and persisted, holds the digest of the content.
C2_StaleIsRegenerated ==
  \A s \in Slots :
    LET o == ops[s]
        doc == CurDoc(o)
    IN (o.pc \in GsfPcs /\ HasId(doc) /\ ~o.hasFresh) =>
         /\ ~o.hit
         /\ o.invoked = 1
         /\ o.pc = "resume" =>
              /\ o.summary.src = doc.pageContent
              /\ doc.id \in DOMAIN summaries /\ summaries[doc.id] = o.summary
              /\ o.fileWrites = 1
              /\ hasFresh(records, doc)
              /\ cacheFile.state = "json" /\ hasFresh(PersistedTable(cacheFile), doc)

\* A stale run has returned although an artifact file existed for the id.
C2_Witness ==
  \E s \in Slots :
    LET o == ops[s]
    IN o.pc = "resume" /\ HasId(CurDoc(o)) /\ ~o.hasFresh /\ o.existed
         /\ o.cached # o.summary

\* C3 as stated: the summarization service produces a summary at most once
\* per (id, content) pair.
C3_OncePerVersion ==
  \A id \in Ids : \A c \in Contents : summCount[id][c] <= 1

\* C3 as amended: in calls that do not overlap, the summarization service
\* returns a summary at most once per maximal run of consecutive pipeline
\* runs that carry the same content for an id.
C3_OncePerRun ==
  \A id \in Ids : cur[id].derived <= 1

\* A second run on an unchanged (id, content) has been served from the cache.
C3_Witness ==
  \E s \in Slots :
    LET o == ops[s]
        doc == CurDoc(o)
    IN o.pc = "resume" /\ o.hit /\ cur[doc.id].content = doc.pageContent
         /\ cur[doc.id].derived = 1

\* C4: a getSummaryFor run on a document with an id, a fresh fingerprint and
\* a cached artifact returns that artifact, and neither invokes the
\* summarization service nor calls set or save on the content hasher.
C4_FreshHit ==
  \A s \in Slots :
    LET o == ops[s]
        doc == CurDoc(o)
    IN (o.pc \in GsfPcs /\ HasId(doc) /\ o.hasFresh /\ o.existed) =>
         /\ o.hit
         /\ o.invoked = 0
         /\ o.setCalls = 0
         /\ o.saveCalls = 0
         /\ o.pc = "resume" => o.summary = o.cached

\* A getSummaryFor call has returned on the fresh-hit path.
C4_Witness ==
  \E s \in Slots :
    LET o == ops[s]
    IN o.kind = "getSummaryFor" /\ o.pc = "resume" /\ o.hasFresh /\ o.existed

\* C5 as stated: on the fresh-hit path the artifact file is not written.
C5_NoWriteOnHit ==
  \A s \in Slots :
    (ops[s].pc \in GsfPcs /\ ops[s].hit) => ops[s].fileWrites = 0

\* C6 as stated: whenever no operation is in the middle of a synchronous
\* run, an id that has both a persisted fingerprint and an artifact file has
\* the fingerprint of the content the artifact was derived from.
C6_CrashSafe ==
  (\A s \in Slots : ops[s].pc \notin SyncPcs) =>
    \A id \in DOMAIN PersistedTable(cacheFile) \cap DOMAIN summaries :
      PersistedTable(cacheFile)[id] = Sha256(summaries[id].src)

\* C7: the vector index never holds more than one entry for an id.
C7_OneEntryPerId ==
  \A id \in Ids : CountId(vs, id) <= 1

\* A batch with the same id twice has been indexed.
C7_Witness ==
  \E s \in Slots :
    LET o == ops[s]
    IN o.kind = "index" /\ o.pc = "next" /\ o.i = 2
         /\ HasId(o.docs[1]) /\ o.docs[1].id = o.docs[2].id
         /\ CountId(vs, o.docs[1].id) = 1

\* C8: no entry of the related list of a settled suggest carries the id of
\* the query document.
C8_SelfExcluded ==
  \A s \in Slots :
    LET o == ops[s]
    IN SuggestDone(o) =>
         \A k \in DOMAIN o.related : o.related[k].sourceDocumentId # o.docs[1].id

\* The search returned the query document itself, among others.
C8_Witness ==
  \E s \in Slots :
    LET o == ops[s]
    IN /\ SuggestDone(o)
       /\ HasId(o.docs[1])
       /\ \E k \in DOMAIN o.results :
            o.results[k].doc.metadata.sourceDocumentId = o.docs[1].id
       /\ Len(o.related) >= 1

\* C9 as stated: the related list is no longer than limit.
C9_AtMostLimit ==
  \A s \in Slots :
    SuggestDone(ops[s]) => Len(ops[s].related) <= ops[s].limit

\* related is results with some entries left out, in the same order.
IsSubsequence(related, results) ==
  \E f \in [DOMAIN related -> DOMAIN results] :
    /\ \A x, y \in DOMAIN related : x < y => f[x] < f[y]
    /\ \A x \in DOMAIN related :
         /\ related[x].sourceDocumentId = results[f[x]].doc.metadata.sourceDocumentId
         /\ related[x].score = results[f[x]].score

\* C10: the related list of a settled suggest is sorted by non-decreasing
\* score and keeps the order of the search results.
C10_Ordered ==
  \A s \in Slots :
    LET o == ops[s]
    IN SuggestDone(o) =>
         /\ IsSorted([k \in DOMAIN o.related |-> o.related[k].score])
         /\ IsSubsequence(o.related, o.results)

\* The self-match was filtered out of three results with distinct scores
\* at the ends.
C10_Witness ==
  \E s \in Slots :
    LET o == ops[s]
    IN /\ SuggestDone(o)
       /\ Len(o.results) = 3
       /\ Len(o.related) = 2
       /\ o.related[1].score < o.related[2].score

\* The positions of index inside the loop body: a document is being processed.
DocPcs == GsfPcs \cup {"check", "delete", "add", "idxSet", "idxSave"}

\* The activities of index call c that are processing a document.
InFlight(c) == {s \in Slots : ops[s].kind = "index" /\ ops[s].call = c /\ ops[s].pc \in DocPcs}

\* C11: of one index call asked to run with parallelism K, never more than K
\* documents are being processed at once, and never the same position of the
\* batch twice.
C11_BoundedConcurrency ==
  \A c \in 1..calls :
    \A s \in InFlight(c) :
      /\ Cardinality(InFlight(c)) <= ops[s].parallel
      /\ \A u \in InFlight(c) : u # s => ops[u].i # ops[s].i

\* The second document of a batch is being processed under parallelism 1.
C11_Witness ==
  \E s \in Slots :
    ops[s].kind = "index" /\ ops[s].pc = "summarize" /\ ops[s].i = 2 /\ ops[s].parallel = 1

\* C12: index passes the documents to getSummaryFor in input order, one after
\* the other, each once, whatever the parallelism asked for; when index
\* returns every document of the batch has been passed.
C12_EachDocumentOnce ==
  \A s \in Slots :
    LET o == ops[s]
    IN o.kind = "index" =>
         /\ o.log = [k \in 1..Len(o.log) |-> k]
         /\ Len(o.log) = IF o.pc = "check" THEN o.i - 1 ELSE o.i
         /\ o.pc \in {"vsSave", "done"} => Len(o.log) = Len(o.docs)

\* An index call asked for parallelism 2 has returned after two documents.
C12_Witness ==
  \E s \in Slots :
    LET o == ops[s]
    IN o.kind = "index" /\ o.pc = "done" /\ o.parallel = 2 /\ Len(o.docs) = 2
         /\ o.log = <<1, 2>>

\* C13 as stated: an index call asked for parallelism K > 1 on at least K
\* documents has K documents in process while documents remain to be claimed.
C13_WorkerPool ==
  \A s \in Slots :
    LET o == ops[s]
    IN (o.kind = "index" /\ o.pc \in DocPcs /\ o.parallel > 1
          /\ Len(o.docs) >= o.parallel /\ o.i < Len(o.docs)) =>
         Cardinality(InFlight(o.call)) = o.parallel

\* C14 as stated: an index call in which a provider failed for a document
\* still settles by returning, every document of the batch having been
\* passed to the pipeline.
C14_FailureIsolation ==
  \A s \in Slots :
    LET o == ops[s]
    IN (o.kind = "index" /\ o.failed /\ o.pc \in {"done", "rejected"}) =>
         (o.pc = "done" /\ Len(o.log) = Len(o.docs))

\* C15: in one pipeline run the summarization service, delete, addDocuments
\* and the similarity search are each called at most once, and an operation
\* in which the summarization or addDocuments failed is rejected: it never
\* goes on, and never returns a result.
C15_NoRetryNoSuppression ==
  \A s \in Slots :
    LET o == ops[s]
    IN /\ o.invoked <= 1
       /\ o.deleteCalls <= 1
       /\ o.addCalls <= 1
       /\ o.searchCalls <= 1
       /\ o.failed => o.pc = "rejected"

\* An index call was rejected because addDocuments failed on its second
\* document.
C15_Witness ==
  \E s \in Slots :
    LET o == ops[s]
    IN o.kind = "index" /\ o.pc = "rejected" /\ o.failed /\ o.addCalls = 1 /\ o.i = 2

\* A document without an id is being processed by s.
NoIdRun(s) == ops[s].pc \in DocPcs /\ ~HasId(CurDoc(ops[s]))

\* A pipeline run on a document without an id takes the miss path and, when
\* the service returns, has a summary of the document's content.
NoIdDerives(s) ==
  LET o == ops[s]
  IN (NoIdRun(s) /\ o.pc \in GsfPcs) =>
       /\ ~o.hit
       /\ o.invoked = 1
       /\ o.pc = "resume" => o.summary.src = CurDoc(o).pageContent

\* C16 as stated: a pipeline run on a document without an id invokes the
\* summarization service, and no step of it changes the fingerprint table in
\* memory, contentHashes.json, the artifact files or the summaries directory.
C16_NoIdLeavesCacheUntouched ==
  [][\A s \in Slots :
       /\ NoIdDerives(s)
       /\ NoIdRun(s) =>
            /\ records' = records
            /\ cacheFile' = cacheFile
            /\ summaries' = summaries
            /\ summariesDir' = summariesDir]_vars

\* C16 as amended: a pipeline run on a document without an id invokes the
\* summarization service, and no step of it changes the fingerprint table in
\* memory, the table contentHashes.json holds, or the artifact files (it may
\* create the summaries directory and rewrite contentHashes.json with the
\* same table).
C16_NoIdKeepsCacheContents ==
  [][\A s \in Slots :
       /\ NoIdDerives(s)
       /\ NoIdRun(s) =>
            /\ records' = records
            /\ PersistedTable(cacheFile') = PersistedTable(cacheFile)
            /\ summaries' = summaries]_vars

\* A getSummaryFor run on a document without an id has returned while the
\* cache held a fingerprint and an artifact.
C16_Witness ==
  \E s \in Slots :
    LET o == ops[s]
    IN /\ ~HasId(CurDoc(o)) /\ o.pc = "resume" /\ o.invoked = 1
       /\ o.saveCalls = 1
       /\ records # EmptyMap /\ summaries # EmptyMap

\* C17: a pipeline run on a document whose artifact and fingerprint were
\* stored by an earlier process, for the same content, finds the fingerprint
\* fresh in the table the new process loaded, returns the cached artifact,
\* which was derived from that content, and does not invoke the
\* summarization service.
C17_SurvivesRestart ==
  \A s \in Slots :
    LET o == ops[s]
        doc == CurDoc(o)
    IN (o.pc \in GsfPcs /\ o.survivor) =>
         /\ o.hasFresh
         /\ o.hit
         /\ o.invoked = 0
         /\ o.pc = "resume" => (o.summary = o.cached /\ o.summary.src = doc.pageContent)

\* A run after a restart has returned the artifact an earlier process stored.
C17_Witness ==
  \E s \in Slots : ops[s].pc = "resume" /\ ops[s].survivor

\* C18: whenever no operation is between two statements of a synchronous
\* run (every operation is idle, settled or suspended at an await), the
\* table contentHashes.json holds is the table in memory; and when index has
\* finished a document with an id, both hold the digest of its content.
C18_PersistedEqualsMemory ==
  /\ (\A s \in Slots : ops[s].pc \notin SyncPcs) => PersistedTable(cacheFile) = records
  /\ \A s \in Slots :
       LET o == ops[s]
           doc == CurDoc(o)
       IN (o.kind = "index" /\ o.pc = "next" /\ o.i >= 1 /\ HasId(doc)) =>
            /\ hasFresh(records, doc)
            /\ hasFresh(PersistedTable(cacheFile), doc)

\* An index is suspended in addDocuments, having changed the fingerprint of
\* its document, while another operation is suspended in the summarization.
C18_Witness ==
  \E s, u \in Slots :
    /\ ops[s].kind = "index" /\ ops[s].pc = "add" /\ ops[s].setCalls = 1
    /\ HasId(CurDoc(ops[s]))
    /\ ops[u].pc = "summarize"

\* The summary document index builds for a document and its summary.
SummaryDocumentOf(doc, summary) ==
  [pageContent |-> summary, metadata |-> [sourceDocumentId |-> doc.id]]

\* C19: when index has added a document, the vector index holds one entry
\* under the document's id, with the summary getSummaryFor resolved as
\* content and {sourceDocumentId: id} as metadata; the summary documents
\* index collects are those of the documents in input order, each a summary
\* of its document's content, and an index that returns has one per input.
C19_OneEntryPerDocument ==
  \A s \in Slots :
    LET o == ops[s]
        doc == CurDoc(o)
        sd == SummaryDocumentOf(doc, o.summary)
    IN o.kind = "index" =>
         /\ Len(o.summaryDocuments) <= Len(o.docs)
         /\ \A k \in DOMAIN o.summaryDocuments :
              /\ o.summaryDocuments[k].metadata = [sourceDocumentId |-> o.docs[k].id]
              /\ o.summaryDocuments[k].pageContent.src = o.docs[k].pageContent
         /\ o.pc \in {"vsSave", "done"} => Len(o.summaryDocuments) = Len(o.docs)
         /\ (o.pc \in {"idxSet", "idxSave", "next"} /\ o.i >= 1) =>
              /\ o.addCalls = 1
              /\ o.summaryDocuments[o.i] = sd
              /\ CountId(vs, doc.id) = 1
              /\ vs[Len(vs)] = [id |-> doc.id, pageContent |-> sd.pageContent,
                                 metadata |-> sd.metadata]

\* An index of two documents with different ids has returned.
C19_Witness ==
  \E s \in Slots :
    LET o == ops[s]
    IN /\ o.kind = "index" /\ o.pc = "done" /\ Len(o.docs) = 2
       /\ HasId(o.docs[1]) /\ HasId(o.docs[2]) /\ o.docs[1].id # o.docs[2].id
       /\ Len(o.summaryDocuments) = 2

\* C20: index does not call the vector store's save while it is in the
\* loop; an index that returns has called it once if it added an entry and
\* not at all otherwise, and it added an entry exactly if the batch was not
\* empty.
C20_SaveOncePerBatch ==
  \A s \in Slots :
    LET o == ops[s]
    IN o.kind = "index" =>
         /\ o.pc \in DocPcs \cup {"next", "rejected"} => o.vsSaves = 0
         /\ o.pc = "vsSave" => (o.vsSaves = 1 /\ o.embeddingsAdded > 0)
         /\ o.pc = "done" =>
              /\ o.vsSaves = IF o.embeddingsAdded > 0 THEN 1 ELSE 0
              /\ o.embeddingsAdded = Len(o.docs)

\* An index of two documents has returned, the vector store saved once.
C20_Witness ==
  \E s \in Slots :
    LET o == ops[s]
    IN /\ o.kind = "index" /\ o.pc = "done" /\ Len(o.docs) = 2
       /\ o.vsSaves = 1 /\ vsSaved.exists /\ vsSaved.entries = vs

\* Position k is the last of the batch with its id.
LastOfId(docs, k) == \A j \in DOMAIN docs : docs[j].id = docs[k].id => j <= k

\* C21: an index whose save of the vector store failed returns, with one
\* summary document per input; the vector store in memory holds, for each
\* document, the entry of its id with the summary of the last document of
\* that id, and the fingerprint table in memory and persisted holds the
\* digest of that document.
C21_SaveFailureNotFatal ==
  \A s \in Slots :
    LET o == ops[s]
    IN (o.kind = "index" /\ o.saveFailed) =>
         /\ o.pc = "done"
         /\ Len(o.summaryDocuments) = Len(o.docs)
         /\ \A k \in DOMAIN o.docs :
              LastOfId(o.docs, k) =>
                /\ \E e \in DOMAIN vs :
                     vs[e] = [id |-> o.docs[k].id,
                              pageContent |-> o.summaryDocuments[k].pageContent,
                              metadata |-> o.summaryDocuments[k].metadata]
                /\ CountId(vs, o.docs[k].id) = 1
                /\ HasId(o.docs[k]) =>
                     /\ hasFresh(records, o.docs[k])
                     /\ hasFresh(PersistedTable(cacheFile), o.docs[k])

\* An index of two documents has returned although the save failed, the
\* saved copy of the vector store being behind the one in memory.
C21_Witness ==
  \E s \in Slots :
    LET o == ops[s]
    IN o.kind = "index" /\ o.pc = "done" /\ o.saveFailed /\ Len(o.docs) = 2
         /\ vsSaved.entries # vs

\* C22: no step taken while a getSummaryFor call is the operation in
\* progress changes the vector store, in memory or saved, and the call
\* makes no delete, addDocuments or save call on it.
C22_NoIndexingSideEffect ==
  [][\A s \in Slots :
       ops[s].kind = "getSummaryFor" =>
         /\ vs' = vs
         /\ vsInit' = vsInit
         /\ vsSaved' = vsSaved
         /\ ops[s].deleteCalls = 0 /\ ops[s].addCalls = 0 /\ ops[s].vsSaves = 0]_vars

\* A getSummaryFor call on the miss path has returned while the vector
\* store held an entry.
C22_Witness ==
  \E s \in Slots :
    ops[s].kind = "getSummaryFor" /\ ops[s].pc = "done" /\ ops[s].invoked = 1 /\ Len(vs) > 0

Arg(o) == o.docs[1]

\* C24: hasFresh on a document with an id returns true exactly when the
\* table holds, for the id, the digest of the document's content; right
\* after set(doc) the table holds that digest, hasFresh(doc) is true and
\* hasFresh is false for every document of the same id and other content.
C24_FreshIffSameDigest ==
  \A s \in Slots :
    LET o == ops[s]
    IN /\ (o.kind = "hasFresh" /\ HasId(Arg(o))) =>
            (o.returned <=> (Arg(o).id \in DOMAIN records
                               /\ records[Arg(o).id] = Sha256(Arg(o).pageContent)))
       /\ (o.kind = "set" /\ HasId(Arg(o))) =>
            /\ records[Arg(o).id] = Sha256(Arg(o).pageContent)
            /\ hasFresh(records, Arg(o))
            /\ \A d \in Docs :
                 (d.id = Arg(o).id /\ d.pageContent # Arg(o).pageContent) =>
                   ~hasFresh(records, d)

\* set has replaced the fingerprint of other content the id had.
C24_Witness ==
  \E s \in Slots :
    LET o == ops[s]
    IN /\ o.kind = "set" /\ HasId(Arg(o))
       /\ Arg(o).id \in DOMAIN o.before
       /\ o.before[Arg(o).id] # records[Arg(o).id]

\* C25: hasFresh on a document without an id returns false, with a warning;
\* set on a document without an id leaves the table as it was, with a
\* warning; both calls return.
C25_AbsentIdIsNoError ==
  \A s \in Slots :
    LET o == ops[s]
    IN /\ (o.kind = "hasFresh" /\ ~HasId(Arg(o))) =>
            (o.pc = "done" /\ o.returned = FALSE /\ o.warned /\ records = o.before)
       /\ (o.kind = "set" /\ ~HasId(Arg(o))) =>
            (o.pc = "done" /\ o.warned /\ records = o.before)
       /\ (o.kind \in {"hasFresh", "set"} /\ HasId(Arg(o))) => ~o.warned

\* set was called on a document without an id while the table held a fingerprint.
C25_Witness ==
  \E s \in Slots :
    ops[s].kind = "set" /\ ~HasId(Arg(ops[s])) /\ records # EmptyMap

\* C26 as stated: after a load with the file missing, load has returned
\* true and the table is empty; after a load of a malformed file, load has
\* returned false and the table is empty.
C26_LoadFailsToEmpty ==
  \A s \in Slots :
    LET o == ops[s]
    IN o.kind = "load" =>
         /\ cacheFile.state = "missing" => (o.returned = TRUE /\ records = EmptyMap)
         /\ cacheFile.state = "corrupt" => (o.returned = FALSE /\ records = EmptyMap)

\* C26 as amended: a load with the file missing returns true, a load of a
\* malformed file returns false, and either leaves the table as it was
\* before the call; the table of a store constructed on such a file is
\* empty.
C26_LoadFailsOpen ==
  \A s \in Slots :
    LET o == ops[s]
    IN /\ o.kind = "load" =>
            /\ o.pc = "done"
            /\ cacheFile.state = "missing" => (o.returned = TRUE /\ records = o.before)
            /\ cacheFile.state = "corrupt" => (o.returned = FALSE /\ records = o.before)
       /\ (o.kind = "new" /\ cacheFile.state # "json") => records = EmptyMap

\* load was called on a malformed file by a store whose table was not empty.
C26_Witness ==
  \E s \in Slots :
    LET o == ops[s]
    IN o.kind = "load" /\ cacheFile.state = "corrupt" /\ o.returned = FALSE
         /\ o.before # EmptyMap

\* C27: after save the file holds exactly the table in memory, one member
\* per id and nothing of what it held before; after load of such a file, or
\* the construction of a store on it, the table in memory is the one the
\* file holds, and saving it again would write the same file.
C27_SaveLoadRoundTrip ==
  \A s \in Slots :
    LET o == ops[s]
        text == cacheFile.text
    IN /\ o.kind = "save" =>
            /\ cacheFile.state = "json"
            /\ Parse(text) = records
            /\ \A j, k \in DOMAIN text : text[j][1] = text[k][1] => j = k
            /\ load(o.before, cacheFile) = records
            /\ PersistedTable(cacheFile) = records
       /\ (o.kind \in {"load", "new"} /\ cacheFile.state = "json") =>
            /\ o.kind = "load" => o.returned = TRUE
            /\ records = Parse(text)
            /\ save(records) = cacheFile

\* load has replaced a table by the different table of two ids that was saved.
C27_Witness ==
  \E s \in Slots :
    LET o == ops[s]
    IN o.kind = "load" /\ cacheFile.state = "json" /\ records # o.before
         /\ o.before # EmptyMap /\ DOMAIN records = Ids

\* C28: the instance create returns uses every collaborator the config
\* supplies as it is and a default for every one the config leaves out; with
\* no vectorStore in the config its vector store is the index saved in its
\* cacheDir when there is one, and a new empty store otherwise.
C28_CreateUsesConfig ==
  LET config == readNext.config
  IN /\ readNext.summaryModel = Default(config.summaryModel, "ChatOpenAI")
     /\ readNext.embeddingsModel = Default(config.embeddingsModel, "OpenAIEmbeddings")
     /\ readNext.summarizationPrompt
          = Default(config.summarizationPrompt, "defaultSummarizationPrompt")
     /\ readNext.logger = Default(config.logger, "readNextLogger")
     /\ readNext.cacheDir = Default(config.cacheDir, DefaultDir)
     /\ readNext.vectorStore =
          IF config.vectorStore # Absent THEN config.vectorStore
          ELSE IF readNext.found THEN "FaissStore.load" ELSE "new FaissStore"

\* The steps of one document's pipeline that C29 names, in its order: the
\* freshness check and cache read, the summarization, the write of the
\* artifact, the record and the persist of the fingerprint, the return to
\* index, the delete and the upsert.
ClaimedSteps ==
  [check |-> 1, summarize |-> 2, writeFile |-> 3, hashSet |-> 4, hashSave |-> 5,
   resume |-> 6, delete |-> 7, add |-> 8]

\* The same followed by the second record and persist of the fingerprint.
IndexSteps ==
  [check |-> 1, summarize |-> 2, writeFile |-> 3, hashSet |-> 4, hashSave |-> 5,
   resume |-> 6, delete |-> 7, add |-> 8, idxSet |-> 9, idxSave |-> 10]

\* Every step index takes on a document moves it to a later step of the list
\* `steps` (or ends the document's turn), one step at a time; the artifact
\* file, the fingerprint table, its file and the vector store change only in
\* their own steps; and a fingerprint is recorded or persisted for a document
\* with an id only once this pipeline run has written the document's artifact.
PipelineStep(steps) ==
  \A s \in Slots :
    LET o == ops[s]
        n == ops'[s]
        doc == CurDoc(o)
    IN (o.kind = "index" /\ o.pc \in DocPcs /\ n # o) =>
         /\ n.pc \in DOMAIN steps \cup {"next", "rejected"}
         /\ n.pc \in DOMAIN steps =>
              n.i = o.i /\ o.pc \in DOMAIN steps /\ steps[n.pc] > steps[o.pc]
         /\ summaries' # summaries => o.pc = "writeFile"
         /\ records' # records => o.pc \in {"hashSet", "idxSet"}
         /\ cacheFile' # cacheFile => o.pc \in {"hashSave", "idxSave"}
         /\ vs' # vs => o.pc \in {"delete", "add"}
         /\ (HasId(doc) /\ (records' # records \/ cacheFile' # cacheFile)) =>
              /\ o.fileWrites = 1
              /\ doc.id \in DOMAIN summaries
              /\ summaries[doc.id] = o.summary

\* C29: inside index, the steps taken on one document are the freshness
\* check, the artifact resolution, the artifact persist, the fingerprint
\* persist, the vector-store delete and the vector-store upsert, in this order
\* and each finished before the next begins; the artifact of a content
\* version is written before its fingerprint.
C29_SixStepsInOrder == [][PipelineStep(ClaimedSteps)]_vars

\* C29, amended: the same order, followed after the upsert by a second record
\* and persist of the fingerprint.
C29_StepsInOrder == [][PipelineStep(IndexSteps)]_vars

\* index has written the artifact and the fingerprint of a changed document,
\* deleted and upserted its entry, and is recording the fingerprint again.
C29_Witness ==
  \E s \in Slots :
    LET o == ops[s]
    IN /\ o.kind = "index" /\ o.pc = "idxSave" /\ HasId(CurDoc(o))
       /\ ~o.hasFresh /\ o.existed
       /\ o.fileWrites = 1 /\ o.setCalls = 1 /\ o.saveCalls = 1
       /\ o.deleteCalls = 1 /\ o.addCalls = 1

\* C30: when getSummaryFor finds the fingerprint of a document with an id
\* fresh but no summary file for the id, it invokes the summarization
\* service, writes the summary file, and calls neither set nor save on the
\* ContentHasher; it calls them only when the fingerprint was not fresh.
C30_FreshButMissing ==
  \A s \in Slots :
    LET o == ops[s]
        doc == CurDoc(o)
    IN (o.kind \in {"index", "getSummaryFor", "suggest"} /\ o.pc \notin {"check", "next"}
          /\ o.i \in DOMAIN o.docs) =>
         /\ (o.setCalls > 0 \/ o.saveCalls > 0) => ~o.hasFresh
         /\ (HasId(doc) /\ o.hasFresh /\ ~o.existed) =>
              /\ ~o.hit
              /\ o.invoked = 1
              /\ o.setCalls = 0 /\ o.saveCalls = 0
              /\ (o.pc \notin {"summarize", "writeFile"} /\ o.summary # NoSummary) => o.fileWrites = 1
              /\ o.pc = "summarize" => o.fileWrites = 0 /\ o.summary = NoSummary
              /\ doc.id \in DOMAIN records /\ records[doc.id] = Sha256(doc.pageContent)

\* getSummaryFor has returned after summarizing a document whose fingerprint
\* was fresh and whose summary file was missing.
C30_Witness ==
  \E s \in Slots :
    LET o == ops[s]
    IN /\ o.kind = "getSummaryFor" /\ o.pc = "done" /\ HasId(CurDoc(o))
       /\ o.hasFresh /\ ~o.existed /\ o.invoked = 1 /\ o.fileWrites = 1
       /\ o.setCalls = 0 /\ o.saveCalls = 0

\* C31: with pipeline runs of one instance overlapping on different ids, once
\* a run has persisted the fingerprint of its document contentHashes.json
\* holds it from then on, whatever other runs persist; and when every run has
\* completed it holds the fingerprint every run recorded.
C31_NoLostUpdate ==
  /\ \A s \in Slots :
       LET o == ops[s]
           doc == CurDoc(o)
       IN (o.kind \in {"index", "getSummaryFor", "suggest"} /\ o.pc # "check"
             /\ HasId(doc) /\ o.saveCalls = 1) =>
            hasFresh(PersistedTable(cacheFile), doc)
  /\ (\A s \in Slots : ops[s].pc \in {"idle", "done", "rejected"}) =>
       \A id \in Ids :
         cur[id].stored =>
           /\ id \in DOMAIN PersistedTable(cacheFile)
           /\ PersistedTable(cacheFile)[id] = Sha256(cur[id].content)

\* The index call started first has recorded the fingerprint of its document
\* and is about to persist the table, after the index call started second
\* has persisted the fingerprint of a document with another id.
C31_Witness ==
  \E s, u \in Slots :
    LET o == ops[s]
        p == ops[u]
    IN /\ o.kind = "index" /\ p.kind = "index" /\ o.call < p.call
       /\ o.pc = "hashSave" /\ p.saveCalls = 1 /\ p.pc \in {"resume", "delete", "add"}
       /\ HasId(CurDoc(o)) /\ HasId(CurDoc(p)) /\ CurDoc(o).id # CurDoc(p).id
       /\ DOMAIN PersistedTable(cacheFile) = {CurDoc(p).id}

C33_SuggestThenIndex ==
  \A s, u \in Slots :
    LET o == ops[s]
        p == ops[u]
        doc == CurDoc(o)
    IN (p.kind = "suggest" /\ p.summary # NoSummary /\ o.kind = "index"
          /\ o.call = p.call + 1 /\ o.pc \notin {"check", "next"} /\ o.i = 1 /\ HasId(doc) /\ doc = p.docs[1]) =>
         /\ o.hit
         /\ o.invoked = 0
         /\ p.invoked + o.invoked = IF p.hit THEN 0 ELSE 1
         /\ o.summary = p.summary
         /\ summaries[doc.id] = p.summary
         /\ hasFresh(records, doc)
         /\ o.pc \in {"idxSet", "idxSave", "vsSave", "done"} =>
              /\ CountId(vs, doc.id) = 1
              /\ vs[LastPos(vs, doc.id)].pageContent = p.summary

\* suggest summarized the document and was rejected by the empty vector
\* store; the index call that followed has added the document's entry.
C33_Witness ==
  \E s, u \in Slots :
    LET o == ops[s]
        p == ops[u]
    IN /\ p.kind = "suggest" /\ p.pc = "rejected" /\ p.invoked = 1 /\ p.summary # NoSummary
       /\ o.kind = "index" /\ o.pc = "done" /\ o.i = 1 /\ o.call = p.call + 1
       /\ HasId(CurDoc(o)) /\ CurDoc(o) = p.docs[1]
       /\ o.invoked = 0 /\ CountId(vs, CurDoc(o).id) = 1

\* C34: however the delete of a document's entry settles, and in particular
\* when the store throws because it holds no entry for the id, index goes on
\* to call addDocuments for the same document, with the store as it was and
\* without failing; and an index call that returns has added every document
\* of its batch.
C34_DeleteErrorSwallowed ==
  [][\A s \in Slots :
       LET o == ops[s]
           n == ops'[s]
           doc == CurDoc(o)
       IN /\ (o.kind = "index" /\ o.pc = "delete" /\ n # o) =>
               /\ n.kind = "index" /\ n.pc = "add"
               /\ n.addCalls = o.addCalls + 1
               /\ n.failed = o.failed /\ ~n.failed
               /\ n.i = o.i /\ n.docs = o.docs
               /\ CountId(vs, doc.id) = 0 => vs' = vs
          /\ (n.kind = "index" /\ n.pc = "done" /\ o.pc # "done") =>
               /\ n.embeddingsAdded = Len(n.docs)
               /\ Len(n.log) = Len(n.docs)
               /\ ~n.failed]_vars

\* The first call of the process, an index of two documents with different
\* ids, has returned: the store held neither id, both deletes threw, and
\* both documents were added.
C34_Witness ==
  \E s \in Slots :
    LET o == ops[s]
    IN /\ o.kind = "index" /\ o.pc = "done" /\ o.call = 1 /\ Len(o.docs) = 2
       /\ HasId(o.docs[1]) /\ HasId(o.docs[2]) /\ o.docs[1].id # o.docs[2].id
       /\ o.embeddingsAdded = 2 /\ Len(vs) = 2

\* C35: whenever no operation is in flight, a summary file cached for an id
\* whose fingerprint in the table is the digest of content c is a summary of
\* content c.
C35_CacheCoherent ==
  (\A s \in Slots : ops[s].pc \in {"idle", "done", "rejected"}) =>
    \A id \in DOMAIN records \cap DOMAIN summaries :
      \A c \in Contents :
        records[id] = Sha256(c) => summaries[id].src = c

\* C36: a getSummaryFor run in which the summarization fails writes nothing:
\* neither its freshness check nor the failure changes the summary files,
\* the fingerprint table in memory or on disk, or the vector store in memory
\* or on disk, and the run has called none of writeFileSync, set, save,
\* delete and addDocuments when the operation is rejected.
C36_FailureBeforeAnyWrite ==
  [][\A s \in Slots :
       LET o == ops[s]
           n == ops'[s]
       IN /\ ((o.pc = "check" /\ n.pc = "summarize")
                \/ (o.pc = "summarize" /\ n.pc = "rejected")) =>
               /\ summaries' = summaries
               /\ records' = records
               /\ cacheFile' = cacheFile
               /\ vs' = vs /\ vsInit' = vsInit /\ vsSaved' = vsSaved
          /\ (o.pc = "summarize" /\ n.pc = "rejected") =>
               /\ n.failed /\ n.summary = NoSummary
               /\ n.fileWrites = 0 /\ n.setCalls = 0 /\ n.saveCalls = 0
               /\ n.deleteCalls = 0 /\ n.addCalls = 0]_vars

\* The summarization of the second document of an index call has failed;
\* the cache holds the summary and the fingerprint of another content of
\* its id.
C36_Witness ==
  \E s \in Slots :
    LET o == ops[s]
        doc == CurDoc(o)
    IN /\ o.kind = "index" /\ o.pc = "rejected" /\ o.i = 2 /\ o.summary = NoSummary
       /\ HasId(doc) /\ o.existed /\ ~o.hasFresh
       /\ summaries[doc.id].src # doc.pageContent
       /\ records[doc.id] # Sha256(doc.pageContent)

\* C37: when addDocuments fails for a document with an id, index is rejected
\* with the document's summary file and fingerprint written (in memory and
\* on disk) and no entry for the id in the vector store, its earlier entry
\* having been deleted; an index call on the same document that follows
\* takes the cached summary without invoking the summarization service and
\* adds the entry for the id.
C37_NotAtomicButRepairable ==
  \A s \in Slots :
    LET o == ops[s]
        doc == CurDoc(o)
    IN (o.kind = "index" /\ o.pc = "rejected" /\ o.summary # NoSummary /\ HasId(doc)) =>
         /\ o.addCalls = 1 /\ o.deleteCalls = 1 /\ o.fileWrites = 1
         /\ o.call = calls =>
              /\ hasFresh(records, doc)
              /\ hasFresh(PersistedTable(cacheFile), doc)
              /\ doc.id \in DOMAIN summaries /\ summaries[doc.id] = o.summary
              /\ CountId(vs, doc.id) = 0
         /\ \A u \in Slots :
              LET p == ops[u]
              IN (p.kind = "index" /\ p.call = o.call + 1 /\ p.i = 1 /\ p.docs[1] = doc
                    /\ p.pc \notin {"check", "next"}) =>
                   /\ p.hit /\ p.invoked = 0 /\ p.summary = o.summary
                   /\ p.pc \in {"idxSet", "idxSave", "vsSave", "done"} =>
                        /\ CountId(vs, doc.id) = 1
                        /\ vs[LastPos(vs, doc.id)].pageContent = o.summary

\* An index call was rejected by addDocuments after it had summarized its
\* document; the index call on the same document that followed has returned
\* with the entry added and the service not invoked.
C37_Witness ==
  \E s, u \in Slots :
    LET o == ops[s]
        p == ops[u]
    IN /\ o.kind = "index" /\ o.pc = "rejected" /\ o.invoked = 1 /\ o.addCalls = 1
       /\ HasId(CurDoc(o))
       /\ p.kind = "index" /\ p.pc = "done" /\ p.call = o.call + 1
       /\ p.docs = <<CurDoc(o)>> /\ p.invoked = 0
       /\ CountId(vs, CurDoc(o).id) = 1

\* C38: when an index call with nothing interleaved has returned, for every
\* id of the batch and the last document of the batch with that id: the
\* fingerprint table, in memory and on disk, maps the id to the digest of
\* the document's content, the summary file of the id holds the summary
\* index returned for the document, and the vector store holds one entry for
\* the id, with that summary as content and the id as sourceDocumentId.
C38_IndexPostcondition ==
  \A s \in Slots :
    LET o == ops[s]
    IN (o.kind = "index" /\ o.pc = "done") =>
         /\ Len(o.summaryDocuments) = Len(o.docs)
         /\ \A k \in DOMAIN o.docs :
              LET doc == o.docs[k]
                  summary == o.summaryDocuments[k].pageContent
              IN (HasId(doc) /\ LastOfId(o.docs, k)) =>
                   /\ summary.src = doc.pageContent
                   /\ hasFresh(records, doc)
                   /\ hasFresh(PersistedTable(cacheFile), doc)
                   /\ doc.id \in DOMAIN summaries /\ summaries[doc.id] = summary
                   /\ CountId(vs, doc.id) = 1
                   /\ vs[LastPos(vs, doc.id)].pageContent = summary
                   /\ vs[LastPos(vs, doc.id)].metadata = [sourceDocumentId |-> doc.id]

\* An index of two documents with the same id and different contents has
\* returned.
C38_Witness ==
  \E s \in Slots :
    LET o == ops[s]
    IN /\ o.kind = "index" /\ o.pc = "done" /\ Len(o.docs) = 2
       /\ HasId(o.docs[1]) /\ o.docs[1].id = o.docs[2].id
       /\ o.docs[1].pageContent # o.docs[2].pageContent
       /\ summaries[o.docs[2].id].src = o.docs[2].pageContent

\* C39: for each document index processes, whether its summary was read
\* from the cache or summarized, index calls delete once and then, when the
\* delete has settled, addDocuments once; neither is called before
\* getSummaryFor has returned, and an index call that returns has added one
\* entry per document of the batch.
C39_VectorStepNeverSkipped ==
  \A s \in Slots :
    LET o == ops[s]
    IN (o.kind = "index" /\ o.i >= 1) =>
         /\ o.pc \in GsfPcs => (o.deleteCalls = 0 /\ o.addCalls = 0)
         /\ o.pc = "delete" => (o.deleteCalls = 1 /\ o.addCalls = 0)
         /\ o.pc \in {"add", "idxSet", "idxSave", "next", "vsSave", "done"} =>
              (o.deleteCalls = 1 /\ o.addCalls = 1)
         /\ o.pc \in {"idxSet", "idxSave", "next", "vsSave", "done"} => o.embeddingsAdded = o.i
         /\ o.pc \in GsfPcs \cup {"delete", "add"} => o.embeddingsAdded = o.i - 1
         /\ o.pc \in {"vsSave", "done"} => o.embeddingsAdded = Len(o.docs)

\* index has deleted and added the entry of a document whose summary it read
\* from the cache.
C39_Witness ==
  \E s \in Slots :
    LET o == ops[s]
    IN /\ o.kind = "index" /\ o.pc = "idxSet" /\ o.hit /\ o.invoked = 0
       /\ o.deleteCalls = 1 /\ o.addCalls = 1
       /\ CountId(vs, CurDoc(o).id) = 1

\* The positions at which index is suspended in a call of the summarization
\* service or of the vector store.
AwaitPcs == {"summarize", "delete", "add", "vsSave"}

\* The call operation s is suspended in settles, with a value or an error.
Settles(s) ==
  \/ \E v \in Variants : SummarizeOk(s, v)
  \/ SummarizeFail(s)
  \/ DeleteOk(s) \/ DeleteThrow(s)
  \/ AddOk(s) \/ AddFail(s)
  \/ VsSaveOk(s) \/ VsSaveFail(s)

\* C40: when every call of the summarization service and of the vector
\* store eventually settles, every index call eventually returns or is
\* rejected; and an index call suspended in such a call moves on only by
\* that call settling: nothing else (no timeout) ends the wait.
C40_Termination ==
  /\ \A s \in Slots : (ops[s].kind = "index") ~> (ops[s].pc \in {"done", "rejected"})
  /\ [][\A s \in Slots :
          (ops[s].kind = "index" /\ ops[s].pc \in AwaitPcs /\ ops'[s] # ops[s]) =>
            Settles(s)]_vars

\* An index call over two documents has returned after waiting for the
\* summarization, the delete, addDocuments and the save of the store.
C40_Witness ==
  \E s \in Slots :
    LET o == ops[s]
    IN /\ o.kind = "index" /\ o.pc = "done" /\ Len(o.docs) = 2 /\ o.i = 2
       /\ o.invoked = 1 /\ o.embeddingsAdded = 2 /\ o.vsSaves = 1

====
